---- MODULE Spec2Model ----
(***************************************************************************)
(* A model of the Twitter job bot of src/main.py: the eligibility filter   *)
(* (meets_criteria and its predicates), the SQLite store (processed_tweets *)
(* and job_posts), the search cycle, the retention prune and the           *)
(* cooperative scheduler that runs them.                                   *)
(*                                                                         *)
(* Time is counted in hours.  `now' is the true (UTC) instant; the host's  *)
(* wall clock, which datetime.now() reads, is now + utc_offset.  Tweet and *)
(* account creation times come from the API as UTC, and SQLite's           *)
(* CURRENT_TIMESTAMP is UTC as well.  Text is a sequence of one-character  *)
(* strings.                                                                *)
(***************************************************************************)
EXTENDS Integers, Sequences, FiniteSets, TLC

VARIABLES
  now,               \* the true instant, in hours (UTC)
  utc_offset,        \* host time zone: datetime.now() = now + utc_offset
  your_twitter_id,   \* YOUR_TWITTER_USER_ID, "" when the variable is unset
  tweets,            \* the platform: every tweet posted so far, tweets[i].id = i
  processed_tweets,  \* table processed_tweets: a set of rows
  job_posts,         \* table job_posts: a set of rows
  pc,                \* position of the single worker
  tweet_results,     \* run_search_cycle: the list returned by search_tweets
  idx,               \* run_search_cycle: position of the for loop in tweet_results
  job_post,          \* run_search_cycle: the value meets_criteria returned
  evaluated,         \* the checks the latest meets_criteria call evaluated, in order
  cycles,            \* number of search cycles started
  sent,              \* history: per tweet id, the calls of send_notification
  dm_attempts,       \* history: per tweet id, the calls of create_direct_message
  inserted,          \* history: per tweet id, the rows added to processed_tweets
  pruned,            \* history: tweet ids whose processed row a prune deleted
  store_failed,      \* history: some persistence operation has raised
  cycle_log          \* history of the current or latest cycle

vars == << now, utc_offset, your_twitter_id, tweets, processed_tweets, job_posts,
           pc, tweet_results, idx, job_post, evaluated, cycles, sent,
           dm_attempts, inserted, pruned, store_failed, cycle_log >>

----------------------------------------------------------------------------
(* Bounds of the model *)

MaxTweets == 2
MaxCycles == 2

\* The instants at which the model observes the worker: the start, an instant
\* within the 60 hours of max_tweet_age_hours, and one on either side of the
\* seven days of retention_hours.
Times == {0, 55, 160, 169}

\* Offsets of the host's time zone from UTC, in hours.
UtcOffsets == {0, 9}

\* The posts of the model: a text of Texts, a follower count, an account creation instant.
Candidates ==
  { <<1, 999, -8760>>, <<1, 998, -8760>>, <<1, 999, -8000>>, <<2, 999, -8760>>,
    <<3, 999, -8000>>, <<4, 999, -8760>>, <<5, 999, -8000>>, <<6, 999, -8760>>,
    <<7, 999, -8760>> }

None == [none |-> TRUE]

----------------------------------------------------------------------------
(* Configuration: TwitterJobBot.__init__ *)

keywords ==
  << <<"h","i","r","i","n","g"," ","f","r","o","n","t","e","n","d">>,
     <<"f","r","o","n","t","e","n","d"," ","e","n","g","i","n","e","e","r","s">>,
     <<"n","e","w"," ","f","r","o","n","t","e","n","d">>,
     <<"a","p","p","l","y"," ","f","r","o","n","t","e","n","d">>,
     <<"f","r","o","n","t","e","n","d"," ","d","e","v","e","l","o","p","e","r">>,
     <<"f","r","o","n","t","e","n","d"," ","d","e","v","e","l","o","p","e","r","s">>,
     <<"f","r","o","n","t","e","n","d"," ","e","n","g","i","n","e","e","r">>,
     <<"h","i","r","i","n","g"," ","r","e","a","c","t"," ","d","e","v","e","l","o","p","e","r">>,
     <<"h","i","r","i","n","g"," ","j","a","v","a","s","c","r","i","p","t"," ","d","e","v","e","l","o","p","e","r">>,
     <<"f","r","o","n","t","e","n","d"," ","p","o","s","i","t","i","o","n">>,
     <<"f","r","o","n","t","e","n","d"," ","r","o","l","e">>,
     <<"r","e","a","c","t"," ","r","o","l","e">>,
     <<"f","r","o","n","t","e","n","d"," ","j","o","b">>,
     <<"f","r","o","n","t","e","n","d"," ","o","p","e","n","i","n","g">>,
     <<"f","r","o","n","t","e","n","d"," ","v","a","c","a","n","c","y">> >>

excluded_words ==
  << <<"n","o","t"," ","h","i","r","i","n","g">>,
     <<"c","l","o","s","e","d">>,
     <<"f","i","l","l","e","d">>,
     <<"e","x","p","i","r","e","d">>,
     <<"c","a","n","c","e","l","e","d">>,
     <<"c","a","n","c","e","l","l","e","d">> >>

min_followers == 999
min_account_age_days == 365
max_tweet_age_hours == 60
retention_hours == 168
max_results == 100
recent_window_hours == 168
max_hashtags == 10
max_mentions == 5

(* Sample tweet texts *)

Texts ==
  << <<"H","i","r","i","n","g"," ","F","r","o","n","t","e","n","d"," ","D","e","v","e","l","o","p","e","r">>,
     <<"g","o","o","d"," ","m","o","r","n","i","n","g">>,
     <<"f","r","o","n","t","e","n","d"," ","r","o","l","e"," ","F","i","l","l","e","d">>,
     <<"f","r","o","n","t","e","n","d"," ","j","o","b"," ","D","M"," ","m","e">>,
     <<"f","r","o","n","t","e","n","d"," ","j","o","b"," ","#","#","#","#","#","#","#","#","#","#","#">>,
     <<"f","r","o","n","t","e","n","d"," ","j","o","b"," ","#","#","#","#","#","#","#","#","#","#","@","@","@","@","@">>,
     <<"@","@","@","@","@","@"," ","f","r","o","n","t","e","n","d"," ","j","o","b"," ","m","a","k","e"," ","$","5">> >>

(* str.lower() on ASCII text *)

UpperToLower ==
  [c \in {"A","B","C","D","E","F","G","H","I","J","K","L","M","N","O","P","Q","R","S","T","U","V","W","X","Y","Z"} |->
     CASE c = "A" -> "a"
       [] c = "B" -> "b"
       [] c = "C" -> "c"
       [] c = "D" -> "d"
       [] c = "E" -> "e"
       [] c = "F" -> "f"
       [] c = "G" -> "g"
       [] c = "H" -> "h"
       [] c = "I" -> "i"
       [] c = "J" -> "j"
       [] c = "K" -> "k"
       [] c = "L" -> "l"
       [] c = "M" -> "m"
       [] c = "N" -> "n"
       [] c = "O" -> "o"
       [] c = "P" -> "p"
       [] c = "Q" -> "q"
       [] c = "R" -> "r"
       [] c = "S" -> "s"
       [] c = "T" -> "t"
       [] c = "U" -> "u"
       [] c = "V" -> "v"
       [] c = "W" -> "w"
       [] c = "X" -> "x"
       [] c = "Y" -> "y"
       [] c = "Z" -> "z"]

click_here == <<"c","l","i","c","k"," ","h","e","r","e">>
dm_me == <<"d","m"," ","m","e">>
follow_for_follow == <<"f","o","l","l","o","w"," ","f","o","r"," ","f","o","l","l","o","w">>
free_money == <<"f","r","e","e"," ","m","o","n","e","y">>
make_dollar == <<"m","a","k","e"," ","$">>
work_from_home == <<"w","o","r","k"," ","f","r","o","m"," ","h","o","m","e">>

----------------------------------------------------------------------------
(* Strings *)

Digits == {"0", "1", "2", "3", "4", "5", "6", "7", "8", "9"}

\* str.lower()
lower(text) ==
  [i \in 1..Len(text) |->
     IF text[i] \in DOMAIN UpperToLower THEN UpperToLower[text[i]] ELSE text[i]]

\* needle in hay
Contains(hay, needle) ==
  \E i \in 1..(Len(hay) - Len(needle) + 1) :
     SubSeq(hay, i, i + Len(needle) - 1) = needle

\* str.count(c) for a one-character c
Count(text, c) == Cardinality({i \in 1..Len(text) : text[i] = c})

\* sep.join(parts)
RECURSIVE join(_, _)
join(sep, parts) ==
  IF Len(parts) = 0 THEN << >>
  ELSE IF Len(parts) = 1 THEN parts[1]
  ELSE parts[1] \o sep \o join(sep, Tail(parts))

\* the regular expression \$\d+ matches at position i of text
DollarDigitsAt(text, i) ==
  /\ i + 1 <= Len(text)
  /\ text[i] = "$"
  /\ text[i + 1] \in Digits

\* re.search(r'make \$\d+', text)
SearchMakeDollar(text) ==
  \E i \in 1..Len(text) :
     /\ i + Len(make_dollar) - 1 <= Len(text)
     /\ SubSeq(text, i, i + Len(make_dollar) - 1) = make_dollar
     /\ i + Len(make_dollar) <= Len(text)
     /\ text[i + Len(make_dollar)] \in Digits

\* re.search(r'work from home.*\$\d+', text): "." matches no newline
SearchWorkFromHome(text) ==
  \E i \in 1..Len(text) :
     /\ i + Len(work_from_home) - 1 <= Len(text)
     /\ SubSeq(text, i, i + Len(work_from_home) - 1) = work_from_home
     /\ \E j \in (i + Len(work_from_home))..Len(text) :
           /\ DollarDigitsAt(text, j)
           /\ \A k \in (i + Len(work_from_home))..(j - 1) : text[k] # "\n"

\* some pattern of spam_patterns is found in text
SearchSpamPatterns(text) ==
  \/ Contains(text, click_here)
  \/ Contains(text, dm_me)
  \/ Contains(text, follow_for_follow)
  \/ Contains(text, free_money)
  \/ SearchMakeDollar(text)
  \/ SearchWorkFromHome(text)

----------------------------------------------------------------------------
(* The predicates of the eligibility filter *)

extract_matching_keywords(text) ==
  LET text_lower == lower(text)
  IN  SelectSeq(keywords, LAMBDA keyword : Contains(text_lower, lower(keyword)))

has_excluded_words(text) ==
  LET text_lower == lower(text)
  IN  \E i \in 1..Len(excluded_words) : Contains(text_lower, lower(excluded_words[i]))

is_likely_spam(text, user) ==
  IF Count(text, "#") > max_hashtags THEN TRUE
  ELSE IF Count(text, "@") > max_mentions THEN TRUE
  ELSE SearchSpamPatterns(lower(text))

----------------------------------------------------------------------------
(* Clock *)

\* datetime.now(): the host's wall clock, naive local time
datetime_now == now + utc_offset

\* (datetime.now() - created_at.replace(tzinfo=None)).days
calculate_account_age(created_at) == (datetime_now - created_at) \div 24

\* (datetime.now() - tweet.created_at.replace(tzinfo=None)).total_seconds() / 3600
tweet_age_hours(tweet) == datetime_now - tweet.created_at

----------------------------------------------------------------------------
(* The store *)

TweetIds(table) == {r.tweet_id : r \in table}

\* a membership test that never finds the row
is_tweet_processed_never(tweet_id) == FALSE

is_tweet_processed(tweet_id) == \E r \in processed_tweets : r.tweet_id = tweet_id

\* INSERT OR REPLACE in place of INSERT OR IGNORE
mark_tweet_processed_replace(tweet_id, author_username) ==
  {r \in processed_tweets : r.tweet_id # tweet_id} \cup
    {[tweet_id |-> tweet_id, author_username |-> author_username,
      processed_at |-> now, notified |-> FALSE]}

\* INSERT OR IGNORE INTO processed_tweets: the table after the statement
mark_tweet_processed(tweet_id, author_username) ==
  IF \E r \in processed_tweets : r.tweet_id = tweet_id
  THEN processed_tweets
  ELSE processed_tweets \cup
         {[tweet_id |-> tweet_id, author_username |-> author_username,
           processed_at |-> now, notified |-> FALSE]}

\* INSERT OR IGNORE INTO job_posts: the table after the statement
save_job_post(post) ==
  IF \E r \in job_posts : r.tweet_id = post.tweet_id
  THEN job_posts
  ELSE job_posts \cup
         {[id |-> Cardinality(job_posts) + 1,
           tweet_id |-> post.tweet_id,
           author_username |-> post.author_username,
           author_followers |-> post.author_followers,
           account_age_days |-> post.account_age_days,
           tweet_text |-> post.tweet_text,
           matching_keywords |-> join(<<",">>, post.matching_keywords),
           created_at |-> post.created_at,
           processed_at |-> now]}

\* a prune that keeps one day in place of seven
cleanup_old_records_one_day ==
  LET day_ago == datetime_now - 24
  IN  {r \in processed_tweets : ~(r.processed_at < day_ago)}

\* DELETE FROM processed_tweets WHERE processed_at < week_ago: the table after it
cleanup_old_records ==
  LET week_ago == datetime_now - retention_hours
  IN  {r \in processed_tweets : ~(r.processed_at < week_ago)}

----------------------------------------------------------------------------
(* The eligibility filter *)

\* the spam heuristic moved before the account age check
check_order_spam_early ==
  << "processed", "tweet_age", "keywords", "excluded", "followers",
     "spam", "account_age" >>

\* the checks of meets_criteria, in the order the code makes them
check_order ==
  << "processed", "tweet_age", "keywords", "excluded", "followers",
     "account_age", "spam" >>

\* the check rejects the tweet
Rejects(check, tweet_data) ==
  LET tweet == tweet_data.tweet
      user == tweet_data.user
  IN  CASE check = "processed" -> is_tweet_processed(tweet.id)
        [] check = "tweet_age" -> tweet_age_hours(tweet) > max_tweet_age_hours
        [] check = "keywords" -> extract_matching_keywords(tweet.text) = << >>
        [] check = "excluded" -> has_excluded_words(tweet.text)
        [] check = "followers" -> user.followers_count < min_followers
        [] check = "account_age" ->
             calculate_account_age(user.created_at) < min_account_age_days
        [] check = "spam" -> is_likely_spam(tweet.text, user)

\* the checks evaluated, from the i-th on, up to and including the first that rejects
RECURSIVE RunChecks(_, _)
RunChecks(tweet_data, i) ==
  IF i > Len(check_order) THEN [passed |-> TRUE, evaluated |-> check_order]
  ELSE IF Rejects(check_order[i], tweet_data)
       THEN [passed |-> FALSE, evaluated |-> SubSeq(check_order, 1, i)]
       ELSE RunChecks(tweet_data, i + 1)

JobPost(tweet_data) ==
  [tweet_id |-> tweet_data.tweet.id,
   author_username |-> tweet_data.user.username,
   author_followers |-> tweet_data.user.followers_count,
   account_age_days |-> calculate_account_age(tweet_data.user.created_at),
   tweet_text |-> tweet_data.tweet.text,
   created_at |-> tweet_data.tweet.created_at,
   matching_keywords |-> extract_matching_keywords(tweet_data.tweet.text)]

\* the value returned, and the checks evaluated on the way
meets_criteria(tweet_data) ==
  LET r == RunChecks(tweet_data, 1)
  IN  [job_post |-> IF r.passed THEN JobPost(tweet_data) ELSE None,
       evaluated |-> r.evaluated]

----------------------------------------------------------------------------
(* Initial state: the bot constructed on an empty database *)

Ids == 1..MaxTweets

NewLog ==
  [results |-> {}, examined |-> {}, accepted |-> {}, dm_failed |-> {},
   marked |-> {}, failed |-> FALSE, done |-> FALSE]

Init ==
  /\ now = 0
  /\ utc_offset \in UtcOffsets
  /\ your_twitter_id \in {"", "4242"}
  /\ tweets = << >>
  /\ processed_tweets = {}
  /\ job_posts = {}
  /\ pc = "start"
  /\ tweet_results = << >>
  /\ idx = 1
  /\ job_post = None
  /\ evaluated = << >>
  /\ cycles = 0
  /\ sent = [i \in Ids |-> 0]
  /\ dm_attempts = [i \in Ids |-> 0]
  /\ inserted = [i \in Ids |-> 0]
  /\ pruned = {}
  /\ store_failed = FALSE
  /\ cycle_log = NewLog

----------------------------------------------------------------------------
(* The platform and the clock *)

\* somebody posts a tweet
Post(text, followers, account_created_at) ==
  /\ pc \in {"start", "idle"}
  /\ Len(tweets) < MaxTweets
  /\ tweets' = Append(tweets,
        [tweet |-> [id |-> Len(tweets) + 1, text |-> text, created_at |-> now],
         user |-> [username |-> "acme", followers_count |-> followers,
                   created_at |-> account_created_at]])
  /\ UNCHANGED << now, utc_offset, your_twitter_id, processed_tweets, job_posts,
                  pc, tweet_results, idx, job_post, evaluated, cycles, sent,
                  dm_attempts, inserted, pruned, store_failed, cycle_log >>

\* time.sleep(60), any number of times
Tick(t) ==
  /\ pc = "idle"
  /\ t > now
  /\ now' = t
  /\ UNCHANGED << utc_offset, your_twitter_id, tweets, processed_tweets, job_posts,
                  pc, tweet_results, idx, job_post, evaluated, cycles, sent,
                  dm_attempts, inserted, pruned, store_failed, cycle_log >>

----------------------------------------------------------------------------
(* run_search_cycle *)

RECURSIVE NewestFirst(_)
NewestFirst(S) ==
  IF S = {} THEN << >>
  ELSE LET m == CHOOSE i \in S : \A j \in S : j <= i
       IN  << tweets[m] >> \o NewestFirst(S \ {m})

\* the tweets search_recent_tweets can return: those of the last seven days
Recent == {i \in 1..Len(tweets) : now - tweets[i].tweet.created_at <= recent_window_hours}

StartCycle(results) ==
  /\ pc \in {"start", "idle"}
  /\ cycles < MaxCycles
  /\ cycles' = cycles + 1
  /\ tweet_results' = results
  /\ idx' = 1
  /\ job_post' = None
  /\ pc' = "loop"
  /\ cycle_log' = [NewLog EXCEPT !.results = {results[i].tweet.id : i \in 1..Len(results)}]
  /\ UNCHANGED << now, utc_offset, your_twitter_id, tweets, processed_tweets,
                  job_posts, evaluated, sent, dm_attempts, inserted, pruned,
                  store_failed >>

\* search_tweets returns tweets, each with its user
Search ==
  \E S \in SUBSET Recent :
     /\ Cardinality(S) <= max_results
     /\ StartCycle(NewestFirst(S))

\* search_tweets catches an error of the API and returns []
SearchError == StartCycle(<< >>)

\* the except clause of run_search_cycle
AbortCycle ==
  /\ pc' = "idle"
  /\ store_failed' = TRUE
  /\ cycle_log' = [cycle_log EXCEPT !.failed = TRUE]

\* job_post = self.meets_criteria(tweet_data)
Criteria ==
  /\ pc = "loop"
  /\ idx <= Len(tweet_results)
  /\ LET r == meets_criteria(tweet_results[idx])
     IN  /\ job_post' = r.job_post
         /\ evaluated' = r.evaluated
         /\ pc' = IF r.job_post # None THEN "save" ELSE "mark"
         /\ cycle_log' =
              [cycle_log EXCEPT
                 !.examined = @ \cup {tweet_results[idx].tweet.id},
                 !.accepted = IF r.job_post # None
                              THEN @ \cup {tweet_results[idx].tweet.id} ELSE @]
  /\ UNCHANGED << now, utc_offset, your_twitter_id, tweets, processed_tweets,
                  job_posts, tweet_results, idx, cycles, sent, dm_attempts,
                  inserted, pruned, store_failed >>

\* is_tweet_processed raises
CriteriaFail ==
  /\ pc = "loop"
  /\ idx <= Len(tweet_results)
  /\ AbortCycle
  /\ UNCHANGED << now, utc_offset, your_twitter_id, tweets, processed_tweets,
                  job_posts, tweet_results, idx, job_post, evaluated, cycles, sent,
                  dm_attempts, inserted, pruned >>

\* a cycle that goes from save_job_post straight to mark_tweet_processed
after_save_job_post_skips_notification == "mark"

\* the statement run_search_cycle executes after save_job_post returns
after_save_job_post == "notify"

\* self.save_job_post(job_post)
Save ==
  /\ pc = "save"
  /\ job_posts' = save_job_post(job_post)
  /\ pc' = after_save_job_post
  /\ UNCHANGED << now, utc_offset, your_twitter_id, tweets, processed_tweets,
                  tweet_results, idx, job_post, evaluated, cycles, sent,
                  dm_attempts, inserted, pruned, store_failed, cycle_log >>

\* save_job_post raises: in execute (nothing written) or in commit (the row is
\* written in the connection's open transaction)
SaveFail(written) ==
  /\ pc = "save"
  /\ job_posts' = IF written THEN save_job_post(job_post) ELSE job_posts
  /\ AbortCycle
  /\ UNCHANGED << now, utc_offset, your_twitter_id, tweets, processed_tweets,
                  tweet_results, idx, job_post, evaluated, cycles, sent,
                  dm_attempts, inserted, pruned >>

\* a send_notification without the try/except: the failure ends the cycle
after_send_notification_uncaught(dm_ok) == IF dm_ok THEN "mark" ELSE "idle"

\* where run_search_cycle goes on after send_notification, whose try/except
\* catches a failure of create_direct_message
after_send_notification(dm_ok) == "mark"

\* self.send_notification(job_post)
Notify(dm_ok) ==
  /\ pc = "notify"
  /\ sent' = [sent EXCEPT ![job_post.tweet_id] = @ + 1]
  /\ IF your_twitter_id # ""
     THEN /\ dm_attempts' = [dm_attempts EXCEPT ![job_post.tweet_id] = @ + 1]
          /\ cycle_log' = IF dm_ok THEN cycle_log
                          ELSE [cycle_log EXCEPT !.dm_failed = @ \cup {job_post.tweet_id}]
          /\ pc' = after_send_notification(dm_ok)
     ELSE /\ dm_ok   \* no message is attempted, so none fails
          /\ pc' = "mark"
          /\ UNCHANGED << dm_attempts, cycle_log >>
  /\ UNCHANGED << now, utc_offset, your_twitter_id, tweets, processed_tweets,
                  job_posts, tweet_results, idx, job_post, evaluated, cycles,
                  inserted, pruned, store_failed >>

\* the arguments of the mark_tweet_processed call of either branch
MarkId == IF job_post # None THEN job_post.tweet_id ELSE tweet_results[idx].tweet.id
MarkAuthor ==
  IF job_post # None THEN job_post.author_username
  ELSE tweet_results[idx].user.username

Inserted(id) ==
  IF is_tweet_processed(id) THEN inserted ELSE [inserted EXCEPT ![id] = @ + 1]

\* self.mark_tweet_processed(...), then the next iteration of the loop
Mark ==
  /\ pc = "mark"
  /\ processed_tweets' = mark_tweet_processed(MarkId, MarkAuthor)
  /\ inserted' = Inserted(MarkId)
  /\ idx' = idx + 1
  /\ pc' = "loop"
  /\ cycle_log' = [cycle_log EXCEPT !.marked = @ \cup {MarkId}]
  /\ UNCHANGED << now, utc_offset, your_twitter_id, tweets, job_posts,
                  tweet_results, job_post, evaluated, cycles, sent, dm_attempts,
                  pruned, store_failed >>

\* mark_tweet_processed raises, in execute or in commit
MarkFail(written) ==
  /\ pc = "mark"
  /\ processed_tweets' = IF written THEN mark_tweet_processed(MarkId, MarkAuthor)
                         ELSE processed_tweets
  /\ inserted' = IF written THEN Inserted(MarkId) ELSE inserted
  /\ AbortCycle
  /\ UNCHANGED << now, utc_offset, your_twitter_id, tweets, job_posts,
                  tweet_results, idx, job_post, evaluated, cycles, sent,
                  dm_attempts, pruned >>

\* the for loop is over
CycleDone ==
  /\ pc = "loop"
  /\ idx > Len(tweet_results)
  /\ pc' = "idle"
  /\ cycle_log' = [cycle_log EXCEPT !.done = TRUE]
  /\ UNCHANGED << now, utc_offset, your_twitter_id, tweets, processed_tweets,
                  job_posts, tweet_results, idx, job_post, evaluated, cycles, sent,
                  dm_attempts, inserted, pruned, store_failed >>

----------------------------------------------------------------------------
(* The scheduled prune: schedule.run_pending() calls cleanup_old_records *)

Cleanup ==
  /\ pc = "idle"
  /\ processed_tweets' = cleanup_old_records
  /\ pruned' = pruned \cup (TweetIds(processed_tweets) \ TweetIds(cleanup_old_records))
  /\ UNCHANGED << now, utc_offset, your_twitter_id, tweets, job_posts, pc,
                  tweet_results, idx, job_post, evaluated, cycles, sent,
                  dm_attempts, inserted, store_failed, cycle_log >>

\* cleanup_old_records raises: nothing catches it between run_pending and main,
\* which logs "Bot crashed" and raises again
CleanupFail ==
  /\ pc = "idle"
  /\ pc' = "crashed"
  /\ store_failed' = TRUE
  /\ UNCHANGED << now, utc_offset, your_twitter_id, tweets, processed_tweets,
                  job_posts, tweet_results, idx, job_post, evaluated, cycles, sent,
                  dm_attempts, inserted, pruned, cycle_log >>

----------------------------------------------------------------------------

Next ==
  \/ \E c \in Candidates : Post(Texts[c[1]], c[2], c[3])
  \/ \E t \in Times : Tick(t)
  \/ Search
  \/ SearchError
  \/ Criteria
  \/ CriteriaFail
  \/ Save
  \/ \E written \in BOOLEAN : SaveFail(written)
  \/ \E dm_ok \in BOOLEAN : Notify(dm_ok)
  \/ Mark
  \/ \E written \in BOOLEAN : MarkFail(written)
  \/ CycleDone
  \/ Cleanup
  \/ CleanupFail

Spec == Init /\ [][Next]_vars


----------------------------------------------------------------------------
(* Properties *)

InCycle == pc \in {"loop", "save", "notify", "mark"}

Last(s) == s[Len(s)]

Range(s) == {s[i] : i \in 1..Len(s)}

\* C1, as stated: between jobs, with no persistence operation having failed,
\* every identifier of job_posts is an identifier of processed_tweets.
C1_AcceptedSubsetOfProcessed ==
  (pc = "idle" /\ ~store_failed) =>
     TweetIds(job_posts) \subseteq TweetIds(processed_tweets)

\* C1, amended: between jobs, every identifier of job_posts is an identifier of
\* processed_tweets unless a prune deleted its processed row, which happens only
\* once the accepted row is more than seven days old by the host's clock, or a
\* persistence operation raised before a processed row was ever written for it.
C1_AcceptedProcessedUntilPruned ==
  pc = "idle" =>
     \A r \in job_posts :
        \/ r.tweet_id \in TweetIds(processed_tweets)
        \/ r.tweet_id \in pruned /\ r.processed_at < datetime_now - retention_hours
        \/ inserted[r.tweet_id] = 0 /\ store_failed

\* C1, witness: an accepted post whose processed row a prune has deleted.
C1_Witness ==
  /\ pc = "idle"
  /\ ~store_failed
  /\ \E r \in job_posts :
        r.tweet_id \in pruned /\ r.tweet_id \notin TweetIds(processed_tweets)

\* C2: as long as no persistence operation has failed, send_notification has
\* been called at most once for each tweet identifier; a post that
\* meets_criteria accepts is not in processed_tweets; and a tweet whose
\* processed row a prune has deleted is older than the 60 hour limit of
\* meets_criteria, which therefore rejects it.
C2_AtMostOneNotification ==
  /\ ~store_failed => \A id \in Ids : sent[id] <= 1
  /\ pc = "save" => job_post.tweet_id \notin TweetIds(processed_tweets)
  /\ \A id \in pruned : Rejects("tweet_age", tweets[id])

\* C2, witness: a post was notified once, its processed row was pruned, and a
\* later cycle examined the post again and wrote the row anew without notifying.
C2_Witness ==
  /\ ~store_failed
  /\ pc = "idle"
  /\ \E id \in Ids : sent[id] = 1 /\ id \in pruned /\ inserted[id] = 2

\* C3, as stated: whenever send_notification has been called for an identifier,
\* the identifier is in processed_tweets.
C3_ProcessedBeforeNotification ==
  \A id \in Ids : sent[id] > 0 => id \in TweetIds(processed_tweets)

\* C3, amended: the processed row is written after the notification.  When
\* send_notification is called for an accepted post, and until
\* mark_tweet_processed is called for it, the identifier is in job_posts and is
\* not in processed_tweets; mark_tweet_processed is not reached for an accepted
\* post before send_notification has been called for it.
C3_NotificationBeforeProcessed ==
  /\ pc = "notify" =>
        /\ job_post.tweet_id \in TweetIds(job_posts)
        /\ job_post.tweet_id \notin TweetIds(processed_tweets)
  /\ (pc = "mark" /\ job_post # None) =>
        /\ sent[job_post.tweet_id] >= 1
        /\ job_post.tweet_id \in TweetIds(job_posts)
        /\ job_post.tweet_id \notin TweetIds(processed_tweets)

\* C3, witness: the notification of an accepted post has been sent and its
\* processed row is not written yet.
C3_Witness ==
  /\ pc = "mark"
  /\ job_post # None
  /\ sent[job_post.tweet_id] = 1
  /\ job_post.tweet_id \notin TweetIds(processed_tweets)

\* C4, as stated: a failure of a persistence operation never ends the process.
C4_ProcessSurvivesPersistenceFailure == store_failed => pc # "crashed"

\* C5: a cycle in which a direct message failed and no persistence operation
\* raised runs to its end: it examines every post of the search result and
\* calls mark_tweet_processed for each post whose message failed; and the rows
\* marked in a cycle are in processed_tweets for the rest of that cycle.
C5_NotificationFailureNonFatal ==
  /\ (pc = "idle" /\ cycle_log.dm_failed # {} /\ ~cycle_log.failed) =>
        /\ cycle_log.done
        /\ cycle_log.dm_failed \subseteq cycle_log.marked
        /\ cycle_log.examined = cycle_log.results
  /\ InCycle => cycle_log.marked \subseteq TweetIds(processed_tweets)

\* C5, witness: the message of the first of two posts failed, and the cycle
\* went on to examine the second post and ended.
C5_Witness ==
  /\ pc = "idle"
  /\ cycle_log.done
  /\ cycle_log.results = {1, 2}
  /\ cycle_log.examined = {1, 2}
  /\ 2 \in cycle_log.dm_failed
  /\ 2 \in TweetIds(processed_tweets)

\* C6, as stated: with no persistence operation having failed, an accepted
\* post that is saved and marked processed has had exactly one direct message
\* attempted.
C6_OneMessagePerAcceptedPost ==
  ~store_failed =>
     \A id \in Ids :
        (id \in TweetIds(job_posts) /\ inserted[id] >= 1) => dm_attempts[id] = 1

UniqueIds(table) == \A r1, r2 \in table : r1.tweet_id = r2.tweet_id => r1 = r2

\* C7: each identifier occurs at most once in processed_tweets and at most once
\* in job_posts, and a call of mark_tweet_processed or of save_job_post with an
\* identifier already present leaves both tables as they were.
C7_IdempotentInserts ==
  /\ [](UniqueIds(processed_tweets) /\ UniqueIds(job_posts))
  /\ [][ /\ (pc = "mark" /\ is_tweet_processed(MarkId)) =>
              UNCHANGED << processed_tweets, job_posts >>
         /\ (pc = "save" /\ job_post.tweet_id \in TweetIds(job_posts)) =>
              UNCHANGED << processed_tweets, job_posts >> ]_vars

\* C7, witness: mark_tweet_processed is about to be called for an identifier
\* whose row was written at an earlier instant.
C7_Witness ==
  /\ pc = "mark"
  /\ \E r \in processed_tweets : r.tweet_id = MarkId /\ r.processed_at < now

\* the age of a post and of an account, counted from the true instant
PostAgeHours(tweet_data) == now - tweet_data.tweet.created_at
AccountAgeDays(tweet_data) == (now - tweet_data.user.created_at) \div 24

Eligible(tweet_data) ==
  /\ ~is_tweet_processed(tweet_data.tweet.id)
  /\ PostAgeHours(tweet_data) <= max_tweet_age_hours
  /\ extract_matching_keywords(tweet_data.tweet.text) # << >>
  /\ ~has_excluded_words(tweet_data.tweet.text)
  /\ tweet_data.user.followers_count >= min_followers
  /\ AccountAgeDays(tweet_data) >= min_account_age_days
  /\ ~is_likely_spam(tweet_data.tweet.text, tweet_data.user)

\* C8, as stated: meets_criteria accepts a post if and only if it is not
\* processed, is at most 60 hours old, matches a keyword, has no excluded word,
\* has at least 999 followers, an account of at least 365 days and is no spam.
C8_AcceptsExactlyTheEligible ==
  /\ pc = "save" => Eligible(tweet_results[idx])
  /\ (pc = "mark" /\ job_post = None) => ~Eligible(tweet_results[idx])

\* C9, as stated: a post rejected for the age of its account is rejected before
\* the exclusion filter and before the spam heuristic are evaluated.
C9_AccountAgeBeforeExclusionAndSpam ==
  (pc = "mark" /\ job_post = None /\ Last(evaluated) = "account_age") =>
     /\ "excluded" \notin Range(evaluated)
     /\ "spam" \notin Range(evaluated)

\* C9, amended: a post rejected for the age of its account is rejected before
\* the spam heuristic is evaluated, and after the exclusion filter has been
\* evaluated and has found no excluded word.
C9_AccountAgeBeforeSpamOnly ==
  (pc = "mark" /\ job_post = None /\ Last(evaluated) = "account_age") =>
     /\ "spam" \notin Range(evaluated)
     /\ "excluded" \in Range(evaluated)
     /\ ~has_excluded_words(tweet_results[idx].tweet.text)

\* C9, witness: a post has just been rejected for the age of its account.
C9_Witness ==
  /\ pc = "mark"
  /\ job_post = None
  /\ Last(evaluated) = "account_age"
  /\ calculate_account_age(tweet_results[idx].user.created_at) < min_account_age_days

\* C10, as stated: after a cycle that ends without a persistence error every
\* post of the search result has been marked processed, and, with no persistence
\* operation having failed, no identifier has had a processed row written twice.
C10_ProcessedRowWrittenOnce ==
  /\ (pc = "idle" /\ cycle_log.done /\ ~cycle_log.failed) =>
        cycle_log.results \subseteq cycle_log.marked
  /\ ~store_failed => \A id \in Ids : inserted[id] <= 1
====
